---- MODULE Spec2Model ----
(***************************************************************************)
(* The scraping subsystem of sovereignlens: the adapters' run(), the       *)
(* validate / check / insert loop of BaseScraper.save_to_db and of         *)
(* PostgresPipeline.process_item, the ScrapeRun bookkeeping, and the       *)
(* multi-adapter sessions of flows.py and scripts/run_scraper.py, over a   *)
(* PostgreSQL store shared by concurrently running writers.                *)
(***************************************************************************)
EXTENDS Integers, Sequences, FiniteSets, TLC

(***************************************************************************)
(* Bounds of the model.                                                    *)
(***************************************************************************)
\* longest list of entries the remote source serves in one fetch
MaxBatch == 2
\* store / fetch failures injected in one behaviour
MaxFaults == 1
\* successive invocations the writer of SpecSeq performs
MaxRounds == 2
\* longest list of fetched entries handed to the batch dedup alone
MaxDedup == 3
\* most entries one feed serves
MaxEntries == 2
\* pages of the CMS API the model follows the reader through; the API may
\* report a last_page beyond them
MaxPages == 3
\* latest reading of the system clock in the specification with a clock
MaxTime == 2

(***************************************************************************)
(* Values.                                                                 *)
(***************************************************************************)
\* run_id before _start_run / open_spider has returned (None)
NoId == 0
\* ended_at of a run that is not finalized (NULL)
NoTime == -1
\* no feed, page or offset: the fetch loop is not running, or has ended
NoPage == -1

\* start_urls: a page of links and the post sitemap
StartUrls == {"policy-areas", "post-sitemap.xml"}
\* the article pages the site has (URLs that match _ARTICLE_URL_RE)
Articles == {"wonk/a", "wonk/b"}
\* no request of the crawl answered yet
NoAnswers == [u \in StartUrls \cup Articles |-> <<>>]

Writers == {"w1", "w2"}

\* source_name of the four BaseScraper subclasses
ScraperNames == {"bbc_news", "worldbank", "stanford_hai", "oecd_ai"}
\* the Scrapy path: the spider run with ITEM_PIPELINES = PostgresPipeline
PipelineName == "oecd_ai_pipeline"
Adapters == ScraperNames \cup {PipelineName}
\* the adapters in a fixed order, used to list unordered pairs of them
AdapterOrder == <<"bbc_news", "worldbank", "stanford_hai", "oecd_ai", PipelineName>>

\* the adapters whose run() has a path on which an error escapes it:
\* CrawlerProcess.start(), data.get on the decoded page, _parse_entry;
\* BBCRSSScraper.run wraps every feed in try / except Exception
CanBreak == {"oecd_ai", "worldbank", "stanford_hai"}

\* the adapters whose run() ends with _filter_existing
Deduping == {"bbc_news", "worldbank", "stanford_hai"}

\* a field absent from the raw item, and a field that holds a non-string
Missing == "<missing>"
NotAStr == "<not-a-str>"

\* A URL text is kept as its parts; kind tells a string from an absent or
\* non-string value, scheme "" is a text with no scheme ("b.org/x").
Url(kind, scheme, host, path) == [kind |-> kind, scheme |-> scheme, host |-> host, path |-> path]

UrlA == Url("str", "https", "a.org", "")
UrlASlash == Url("str", "https", "a.org", "/")
UrlB == Url("str", "https", "b.org", "/x")
UrlRelative == Url("str", "", "", "b.org/x")
UrlFtp == Url("str", "ftp", "a.org", "/f")
UrlMissing == Url("missing", "", "", "")
UrlNotAStr == Url("nonstr", "", "", "")

Item(title, url, content) == [title |-> title, source_url |-> url, content |-> content]

\* the entries a remote source serves in the store specifications
BatchItems ==
    { Item("T", UrlA, "c"), Item("T", UrlASlash, "c"),
      Item("T", UrlB, ""), Item("T", UrlRelative, "c") }

RECURSIVE SeqsUpTo(_, _)
SeqsUpTo(S, n) ==
    IF n = 0 THEN {<<>>}
    ELSE LET shorter == SeqsUpTo(S, n - 1)
         IN shorter \cup {Append(s, x) : s \in {t \in shorter : Len(t) = n - 1}, x \in S}

Batches == SeqsUpTo(BatchItems, MaxBatch)

(***************************************************************************)
(* OECDDocument: the validator.                                            *)
(***************************************************************************)
\* pydantic's str: any string, the empty one included; no coercion
IsStr(v) == v \notin {Missing, NotAStr}

\* pydantic's HttpUrl: a string with scheme http or https and a host
IsHttpUrl(u) == u.kind = "str" /\ u.scheme \in {"http", "https"} /\ u.host # ""

\* OECDDocument(item) raises ValidationError unless this holds
Validate(item) == IsStr(item.title) /\ IsHttpUrl(item.source_url) /\ IsStr(item.content)

\* str(doc.source_url): the validated URL rendered back, an empty path as "/"
UrlStr(u) == [u EXCEPT !.path = IF u.path = "" THEN "/" ELSE u.path]

(***************************************************************************)
(* The store: raw_documents and scrape_runs.                               *)
(***************************************************************************)
\* db.query(RawDocument).filter(RawDocument.source_url == url_str).first()
Exists(store, url_str) == \E r \in store : r.source_url = url_str

\* as UniqueViolation, with the column declared without unique=True
NoUniqueConstraint(store, url_str) == FALSE

\* the UNIQUE constraint on raw_documents.source_url, checked at commit
UniqueViolation(store, url_str) == \E r \in store : r.source_url = url_str

\* as NewRow, with the item's own source_url stored in place of url_str
NewRowRawUrl(store, item) ==
    [ id |-> Cardinality(store) + 1,
      source_url |-> item.source_url,
      title |-> item.title,
      content |-> item.content,
      processed |-> FALSE ]

\* RawDocument(source_url=url_str, title=..., content=..., processed=False);
\* id is a fresh uuid4. country, source_name, scraped_at and metadata are
\* copied from the document and read by nothing in the model.
NewRow(store, item) ==
    [ id |-> Cardinality(store) + 1,
      source_url |-> UrlStr(item.source_url),
      title |-> item.title,
      content |-> item.content,
      processed |-> FALSE ]

\* ScrapeRun(source_name=..., started_at=utcnow(), status="running");
\* ended_at and error_message default to NULL, docs_scraped to 0
NewRun(runs, name, t) ==
    [ id |-> Cardinality(runs) + 1,
      source_name |-> name,
      started_at |-> t,
      ended_at |-> NoTime,
      docs_scraped |-> 0,
      status |-> "running",
      error_message |-> "" ]

\* as Finalized, with the assignment of ended_at forgotten
FinalizedNoEnd(r, t, docs_saved) ==
    [r EXCEPT !.docs_scraped = docs_saved, !.status = "success"]

\* as Finalized, with a run that stored no document marked failed
FinalizedFailedWhenEmpty(r, t, docs_saved) ==
    [r EXCEPT !.ended_at = t, !.docs_scraped = docs_saved,
              !.status = IF docs_saved = 0 THEN "failed" ELSE "success"]

\* run = db.get(ScrapeRun, run_id); if run: ended_at, docs_scraped, status
Finalized(r, t, docs_saved) ==
    [r EXCEPT !.ended_at = t, !.docs_scraped = docs_saved, !.status = "success"]

FinishRun(runs, id, t, docs_saved) ==
    {IF r.id = id THEN Finalized(r, t, docs_saved) ELSE r : r \in runs}

(***************************************************************************)
(* One item of the loop of save_to_db / one call of process_item.          *)
(***************************************************************************)
\* validation, then the duplicate check; fault: the query raises
CheckOutcome(item, store, fault) ==
    IF ~Validate(item) THEN "invalid"
    ELSE IF fault THEN "error"
    ELSE IF Exists(store, UrlStr(item.source_url)) THEN "duplicate"
    ELSE "insert"

\* db.add(raw); db.commit(); fault: the commit raises another error
CommitOutcome(item, store, fault) ==
    IF fault THEN "error"
    ELSE IF UniqueViolation(store, UrlStr(item.source_url)) THEN "conflict"
    ELSE "inserted"

\* as AfterCommit, with a conflicting insert overwriting the stored row
AfterCommitUpsert(store, row, outcome) ==
    CASE outcome = "inserted" -> store \cup {row}
      [] outcome = "conflict" ->
            {r \in store : r.source_url # row.source_url} \cup {row}
      [] OTHER -> store

\* the store after db.add(raw); db.commit(): the new row when the commit
\* returned, the store as it was after the rollback of a failed commit
AfterCommit(store, row, outcome) ==
    IF outcome = "inserted" THEN store \cup {row} ELSE store

\* as Caught, with the ValidationError left to propagate
CaughtButInvalid(outcome) == outcome # "invalid"

\* as Caught, with no except Exception around the query and the commit
CaughtButError(outcome) == outcome # "error"

\* as Caught, with the IntegrityError of a lost race left to propagate
CaughtButConflict(outcome) == outcome # "conflict"

\* except IntegrityError / except Exception: both handlers roll back and let
\* the loop go on; nothing raised by the query or the commit leaves the loop
Caught(outcome) == outcome \in {"invalid", "duplicate", "error", "conflict", "inserted"}

\* as Tally, with the insert refused by the unique constraint counted too
TallyConflicts(n, outcome) == IF outcome \in {"inserted", "conflict"} THEN n + 1 ELSE n

\* as Tally, with saved += 1 placed where every attempted insert reaches it
TallyAttempts(n, outcome) == n + 1

\* saved += 1 follows a commit that returned
Tally(n, outcome) == IF outcome = "inserted" THEN n + 1 ELSE n

(***************************************************************************)
(* The adapters' run(): what is returned for the entries fetched.          *)
(***************************************************************************)
\* _filter_existing: if not items: return []; otherwise one IN query
FilterQueries(a, fetched) == IF a \in Deduping /\ fetched # <<>> THEN 1 ELSE 0

RECURSIVE DedupKeepsLast(_)
\* as DedupBatch, keeping the last entry of each source_url
DedupKeepsLast(s) ==
    IF s = <<>> THEN <<>>
    ELSE LET rest == DedupKeepsLast(Tail(s))
         IN IF \E i \in 1..Len(rest) : rest[i].source_url = Head(s).source_url
            THEN rest
            ELSE <<Head(s)>> \o rest

RECURSIVE DedupBatch(_)
\* seen = set(); keep an item when its source_url is not in seen
DedupBatch(s) ==
    IF s = <<>> THEN <<>>
    ELSE LET front == DedupBatch(SubSeq(s, 1, Len(s) - 1))
             last == s[Len(s)]
         IN IF \E i \in 1..Len(front) : front[i].source_url = last.source_url
            THEN front
            ELSE Append(front, last)

\* as FilterExisting, with a failed query taken to mean that nothing is new
FilterExistingOrNothing(s, store, queryOk) ==
    IF queryOk
    THEN SelectSeq(s, LAMBDA it : it.source_url \notin {r.source_url : r \in store})
    ELSE <<>>

\* _filter_existing: one IN query over the batch's raw source_url values;
\* a failed query leaves existing = set()
FilterExisting(s, store, queryOk) ==
    LET existing == IF queryOk THEN {r.source_url : r \in store} ELSE {}
    IN SelectSeq(s, LAMBDA it : it.source_url \notin existing)

\* BBCRSSScraper and WorldBankScraper dedup the batch and filter it against
\* the store, StanfordHAIScraper only filters, OECDScraper does neither
RunResult(a, fetched, store, queryOk) ==
    LET unique == IF a \in {"bbc_news", "worldbank"} THEN DedupBatch(fetched) ELSE fetched
    IN IF a = "oecd_ai" THEN unique ELSE FilterExisting(unique, store, queryOk)

\* as AfterRun, with the PostgresPipeline left enabled in OECDScraper.run:
\* the crawl stores the first valid new item it scrapes
AfterRunWithPipeline(a, fetched, store) ==
    LET new == SelectSeq(fetched, LAMBDA it :
                   Validate(it) /\ ~Exists(store, UrlStr(it.source_url)))
    IN IF a = "oecd_ai" /\ new # <<>> THEN store \cup {NewRow(store, new[1])} ELSE store

\* raw_documents after run(): the network requests and the SELECT of
\* _filter_existing write nothing, and OECDScraper.run crawls with
\* ITEM_PIPELINES = {}
AfterRun(a, fetched, store) == store

(***************************************************************************)
(* State.                                                                  *)
(***************************************************************************)
VARIABLES
    raw_documents,  \* the rows of table raw_documents
    scrape_runs,    \* the rows of table scrape_runs
    now,            \* what datetime.utcnow() returns when it is called
    faults,         \* failures injected so far
    remote,         \* the entries the remote source serves
    pc,             \* each writer's position
    adapter,        \* the adapter a writer is running
    items,          \* its batch
    idx,            \* the item the loop is at
    saved,          \* saved / self._docs_scraped
    run_id,         \* run_id / self._run_id
    ret,            \* the count the last save_to_db returned
    exc,            \* the error that reached the invocation's caller, "" if none
    log,            \* history: the outcome of each item of the invocation
    inserted,       \* history: ids of the rows the invocation committed
    snapshot,       \* history: raw_documents when the invocation began
    queries,        \* history: existence queries the invocation sent to raw_documents
    process,        \* the writer's OS process: OECDScraper.run calls, reactor run or not
    results,        \* history: how each ended invocation of the writer ended
    broken,         \* the adapters whose run() raises on every attempt
    flow,           \* the session: which flow or script mode runs
    task,           \* the place in its order of the adapter in hand
    attempt,        \* retries of that task used so far
    counts,         \* the count each completed task returned
    sess,           \* "running", "completed" or "failed"
    total,          \* the total the session logged
    launched,       \* history: the adapters the session has started
    raw_item,       \* the validator's input
    verdict,        \* and what OECDDocument(raw_item) did
    cursor,         \* the fetch loop of run(): the feed, page or offset it is at
    fetched,        \* the list it accumulates, one chunk per extend()
    requests,       \* history: the feeds, pages, offsets or URLs requested so far
    replies,        \* history: what the remote source answered to each
    pending,        \* the crawl: the requests the scheduler holds
    answers,        \* history: what each URL of the crawl answered, request by request
    handled         \* history: the URLs _handle_error was called for

storeVars == <<raw_documents, scrape_runs, now, faults, remote>>
writerVars == <<pc, adapter, items, idx, saved, run_id, ret, exc, log, inserted, snapshot, queries,
                process, results>>
sessionVars == <<broken, flow, task, attempt, counts, sess, total, launched>>
validatorVars == <<raw_item, verdict>>
fetchVars == <<cursor, fetched, requests, replies, pending, answers, handled>>
vars == <<storeVars, writerVars, sessionVars, validatorVars, fetchVars>>

\* a fresh interpreter: OECDScraper.run not yet called, reactor never run
NewProcess == [oecd_runs |-> 0, reactor |-> FALSE]

\* the process after one more call of run() of adapter a; started: whether
\* CrawlerProcess.start() got to run the reactor
Executed(p, a, started) ==
    IF a = "oecd_ai"
    THEN [oecd_runs |-> p.oecd_runs + 1, reactor |-> p.reactor \/ started]
    ELSE p

\* the Twisted reactor cannot be started twice in a process: a second
\* CrawlerProcess.start() raises ReactorNotRestartable
NotRestartable(w) == adapter[w] = "oecd_ai" /\ process[w].reactor

\* whether one more failure may be injected
FaultChoices == IF faults < MaxFaults THEN {FALSE, TRUE} ELSE {FALSE}
Spend(fault) == IF fault THEN faults + 1 ELSE faults

InitStore ==
    /\ raw_documents = {}
    /\ scrape_runs = {}
    /\ now = 0
    /\ faults = 0

InitSession ==
    /\ broken = {}
    /\ flow = "none"
    /\ task = 1
    /\ attempt = 0
    /\ counts = <<>>
    /\ sess = "running"
    /\ total = 0
    /\ launched = {}

InitValidator ==
    /\ raw_item = Item("T", UrlA, "c")
    /\ verdict = "none"

InitFetch ==
    /\ cursor = NoPage
    /\ fetched = <<>>
    /\ requests = <<>>
    /\ replies = <<>>
    /\ pending = {}
    /\ answers = NoAnswers
    /\ handled = {}

InitWriters ==
    /\ items = [w \in Writers |-> <<>>]
    /\ idx = [w \in Writers |-> 1]
    /\ saved = [w \in Writers |-> 0]
    /\ run_id = [w \in Writers |-> NoId]
    /\ ret = [w \in Writers |-> 0]
    /\ exc = [w \in Writers |-> ""]
    /\ log = [w \in Writers |-> <<>>]
    /\ inserted = [w \in Writers |-> {}]
    /\ snapshot = [w \in Writers |-> {}]
    /\ queries = [w \in Writers |-> 0]
    /\ process = [w \in Writers |-> NewProcess]
    /\ results = [w \in Writers |-> <<>>]

\* where a new invocation of adapter a starts
Entry(a) == IF a = PipelineName THEN "open" ELSE "fetch"

\* Two writers, each one invocation in flight against an empty store. The
\* writers are interchangeable, so each unordered pair of adapters is
\* started once.
Init ==
    /\ InitStore
    /\ InitWriters
    /\ InitSession
    /\ InitValidator
    /\ InitFetch
    /\ remote \in Batches
    /\ \E i \in 1..Len(AdapterOrder) : \E j \in i..Len(AdapterOrder) :
          adapter = [w \in Writers |-> IF w = "w1" THEN AdapterOrder[i] ELSE AdapterOrder[j]]
    /\ pc = [w \in Writers |-> Entry(adapter[w])]

(***************************************************************************)
(* One invocation through BaseScraper: scraper.run(), then save_to_db.     *)
(***************************************************************************)
\* as Raise, with the error logged and the call returning all the same
Swallow(w, what) ==
    /\ pc' = [pc EXCEPT ![w] = "done"]
    /\ exc' = exc

\* an error leaves the invocation and reaches its caller
Raise(w, what) ==
    /\ pc' = [pc EXCEPT ![w] = "raised"]
    /\ exc' = [exc EXCEPT ![w] = what]

\* scraper = XScraper() in run_x_task / run_x
Begin(w, a) ==
    /\ adapter' = [adapter EXCEPT ![w] = a]
    /\ items' = [items EXCEPT ![w] = <<>>]
    /\ idx' = [idx EXCEPT ![w] = 1]
    /\ saved' = [saved EXCEPT ![w] = 0]
    /\ run_id' = [run_id EXCEPT ![w] = NoId]
    /\ ret' = [ret EXCEPT ![w] = 0]
    /\ exc' = [exc EXCEPT ![w] = ""]
    /\ log' = [log EXCEPT ![w] = <<>>]
    /\ inserted' = [inserted EXCEPT ![w] = {}]
    /\ snapshot' = [snapshot EXCEPT ![w] = raw_documents]
    /\ queries' = [queries EXCEPT ![w] = 0]
    /\ pc' = [pc EXCEPT ![w] = Entry(a)]

Invoke(w) ==
    /\ pc[w] = "idle"
    /\ Len(results[w]) < MaxRounds
    /\ \E a \in Adapters : Begin(w, a)
    /\ process' = [process EXCEPT ![w] = NewProcess]
    /\ UNCHANGED <<raw_documents, scrape_runs, now, faults, remote, results>>
    /\ UNCHANGED <<sessionVars, validatorVars, fetchVars>>

\* items = scraper.run(): the fetch, the batch dedup and _filter_existing
Run(w) ==
    /\ pc[w] = "fetch"
    /\ adapter[w] \notin broken
    /\ ~NotRestartable(w)
    /\ process' = [process EXCEPT ![w] = Executed(@, adapter[w], TRUE)]
    /\ LET asked == FilterQueries(adapter[w], remote)
       IN /\ \E fault \in (IF asked = 1 THEN FaultChoices ELSE {FALSE}) :
                /\ items' = [items EXCEPT ![w] =
                                RunResult(adapter[w], remote, raw_documents, ~fault)]
                /\ faults' = Spend(fault)
          /\ queries' = [queries EXCEPT ![w] = @ + asked]
    /\ raw_documents' = AfterRun(adapter[w], remote, raw_documents)
    /\ pc' = [pc EXCEPT ![w] = "save"]
    /\ UNCHANGED <<scrape_runs, now, remote, adapter, idx, saved, run_id,
                   ret, exc, log, inserted, snapshot, results>>
    /\ UNCHANGED <<sessionVars, validatorVars, fetchVars>>

\* run() raises: an error none of its handlers catches
RunRaises(w) ==
    /\ pc[w] = "fetch"
    /\ adapter[w] \in CanBreak
    /\ IF adapter[w] \in broken \/ NotRestartable(w)
       THEN faults' = faults
       ELSE faults < MaxFaults /\ faults' = faults + 1
    /\ \E started \in BOOLEAN :
          process' = [process EXCEPT ![w] = Executed(@, adapter[w], started)]
    /\ Raise(w, "fetch")
    /\ UNCHANGED <<raw_documents, scrape_runs, now, remote, adapter, items, idx, saved,
                   run_id, ret, log, inserted, snapshot, queries, results>>
    /\ UNCHANGED <<sessionVars, validatorVars, fetchVars>>

\* save_to_db: if not items: return 0
SaveNothing(w) ==
    /\ pc[w] = "save"
    /\ items[w] = <<>>
    /\ ret' = [ret EXCEPT ![w] = 0]
    /\ pc' = [pc EXCEPT ![w] = "done"]
    /\ UNCHANGED <<raw_documents, scrape_runs, now, faults, remote, adapter, items, idx,
                   saved, run_id, exc, log, inserted, snapshot, queries, process, results>>
    /\ UNCHANGED <<sessionVars, validatorVars, fetchVars>>

\* run_id = self._start_run(); saved = 0
StartRun(w) ==
    /\ pc[w] = "save"
    /\ items[w] # <<>>
    /\ \E fault \in FaultChoices :
          /\ faults' = Spend(fault)
          /\ IF fault
             THEN /\ Raise(w, "run_tracking")
                  /\ UNCHANGED <<scrape_runs, run_id>>
             ELSE LET run == NewRun(scrape_runs, adapter[w], now)
                  IN /\ scrape_runs' = scrape_runs \cup {run}
                     /\ run_id' = [run_id EXCEPT ![w] = run.id]
                     /\ pc' = [pc EXCEPT ![w] = "loop"]
                     /\ UNCHANGED exc
    /\ saved' = [saved EXCEPT ![w] = 0]
    /\ UNCHANGED <<raw_documents, now, remote, adapter, items, idx, ret, log, inserted,
                   snapshot, queries, process, results>>
    /\ UNCHANGED <<sessionVars, validatorVars, fetchVars>>

\* the exit of one item of the loop: the outcome is logged, the loop moves on
NextItem(w, outcome) ==
    /\ log' = [log EXCEPT ![w] = Append(@, [url |-> UrlStr(items[w][idx[w]].source_url),
                                             outcome |-> outcome])]
    /\ idx' = [idx EXCEPT ![w] = @ + 1]

\* doc = OECDDocument(item); exists = db.query(...).first()
CheckItem(w, here, there) ==
    /\ pc[w] = here
    /\ idx[w] <= Len(items[w])
    /\ \E fault \in FaultChoices :
          LET outcome == CheckOutcome(items[w][idx[w]], raw_documents, fault)
          IN /\ faults' = IF outcome = "error" THEN faults + 1 ELSE faults
             /\ IF outcome = "insert"
                THEN /\ pc' = [pc EXCEPT ![w] = there]
                     /\ UNCHANGED <<log, idx, exc>>
                ELSE /\ NextItem(w, outcome)
                     /\ IF Caught(outcome) THEN UNCHANGED <<pc, exc>> ELSE Raise(w, outcome)
    /\ queries' = [queries EXCEPT ![w] = IF Validate(items[w][idx[w]]) THEN @ + 1 ELSE @]
    /\ UNCHANGED <<raw_documents, scrape_runs, now, remote, adapter, items, saved, run_id,
                   ret, inserted, snapshot, process, results>>
    /\ UNCHANGED <<sessionVars, validatorVars, fetchVars>>

\* db.add(raw); db.commit(); saved += 1, or the rollback of a failed commit
CommitItem(w, here, there) ==
    /\ pc[w] = here
    /\ \E fault \in FaultChoices :
          LET item == items[w][idx[w]]
              outcome == CommitOutcome(item, raw_documents, fault)
              row == NewRow(raw_documents, item)
          IN /\ faults' = Spend(fault)
             /\ raw_documents' = AfterCommit(raw_documents, row, outcome)
             /\ inserted' = [inserted EXCEPT ![w] =
                                {r.id : r \in raw_documents' \ raw_documents} \cup @]
             /\ saved' = [saved EXCEPT ![w] = Tally(@, outcome)]
             /\ NextItem(w, outcome)
             /\ IF Caught(outcome)
                THEN pc' = [pc EXCEPT ![w] = there] /\ UNCHANGED exc
                ELSE Raise(w, outcome)
    /\ UNCHANGED <<scrape_runs, now, remote, adapter, items, run_id, ret, snapshot, queries, process, results>>
    /\ UNCHANGED <<sessionVars, validatorVars, fetchVars>>

\* self._end_run(run_id, saved); return saved
EndRun(w, here) ==
    /\ pc[w] = here
    /\ idx[w] > Len(items[w])
    /\ \E fault \in FaultChoices :
          /\ faults' = Spend(fault)
          /\ IF fault
             THEN /\ Raise(w, "run_tracking")
                  /\ UNCHANGED <<scrape_runs, ret>>
             ELSE /\ scrape_runs' = FinishRun(scrape_runs, run_id[w], now, saved[w])
                  /\ ret' = [ret EXCEPT ![w] = saved[w]]
                  /\ pc' = [pc EXCEPT ![w] = "done"]
                  /\ UNCHANGED exc
    /\ UNCHANGED <<raw_documents, now, remote, adapter, items, idx, saved, run_id, log,
                   inserted, snapshot, queries, process, results>>
    /\ UNCHANGED <<sessionVars, validatorVars, fetchVars>>

SaveCheck(w) == CheckItem(w, "loop", "insert")
SaveCommit(w) == CommitItem(w, "insert", "loop")
SaveEndRun(w) == EndRun(w, "loop")

(***************************************************************************)
(* One crawl through PostgresPipeline.                                     *)
(***************************************************************************)
\* open_spider: the run is created before the crawl
OpenSpider(w) ==
    /\ pc[w] = "open"
    /\ \E fault \in FaultChoices :
          /\ faults' = Spend(fault)
          /\ IF fault
             THEN /\ Raise(w, "run_tracking")
                  /\ UNCHANGED <<scrape_runs, run_id>>
             ELSE LET run == NewRun(scrape_runs, "oecd_ai", now)
                  IN /\ scrape_runs' = scrape_runs \cup {run}
                     /\ run_id' = [run_id EXCEPT ![w] = run.id]
                     /\ pc' = [pc EXCEPT ![w] = "crawl"]
                     /\ UNCHANGED exc
    /\ UNCHANGED <<raw_documents, now, remote, adapter, items, idx, saved, ret, log,
                   inserted, snapshot, queries, process, results>>
    /\ UNCHANGED <<sessionVars, validatorVars, fetchVars>>

\* the crawl: the items the spider yields, handed to process_item in turn
Crawl(w) ==
    /\ pc[w] = "crawl"
    /\ items' = [items EXCEPT ![w] = remote]
    /\ pc' = [pc EXCEPT ![w] = "item"]
    /\ UNCHANGED <<raw_documents, scrape_runs, now, faults, remote, adapter, idx, saved,
                   run_id, ret, exc, log, inserted, snapshot, queries, process, results>>
    /\ UNCHANGED <<sessionVars, validatorVars, fetchVars>>

\* as CloseSpider, with the run left as open_spider wrote it
CloseSpiderNoFinalize(w) ==
    /\ pc[w] = "item"
    /\ idx[w] > Len(items[w])
    /\ ret' = [ret EXCEPT ![w] = saved[w]]
    /\ pc' = [pc EXCEPT ![w] = "done"]
    /\ UNCHANGED <<raw_documents, scrape_runs, now, faults, remote, adapter, items, idx,
                   saved, run_id, exc, log, inserted, snapshot, queries, process, results>>
    /\ UNCHANGED <<sessionVars, validatorVars, fetchVars>>

ProcessItemCheck(w) == CheckItem(w, "item", "item_insert")
ProcessItemCommit(w) == CommitItem(w, "item_insert", "item")
CloseSpider(w) == EndRun(w, "item")

(***************************************************************************)
(* The invocation returns to its caller, or its error reaches it.          *)
(***************************************************************************)
Ended(w) == pc[w] \in {"done", "raised"}

Outcome(w) ==
    [ adapter |-> adapter[w],
      raised |-> pc[w] = "raised",
      count |-> ret[w],
      before |-> snapshot[w],
      after |-> raw_documents,
      errors |-> \E i \in 1..Len(log[w]) : log[w][i].outcome = "error" ]

Return(w) ==
    /\ Ended(w)
    /\ results' = [results EXCEPT ![w] = Append(@, Outcome(w))]
    /\ pc' = [pc EXCEPT ![w] = "idle"]
    /\ UNCHANGED <<raw_documents, scrape_runs, now, faults, remote, adapter, items, idx,
                   saved, run_id, ret, exc, log, inserted, snapshot, queries,
                   process>>
    /\ UNCHANGED <<sessionVars, validatorVars, fetchVars>>

(***************************************************************************)
(* Concurrent writers on one store.                                        *)
(***************************************************************************)
ScraperStep(w) ==
    \/ Run(w)
    \/ RunRaises(w)
    \/ SaveNothing(w)
    \/ StartRun(w)
    \/ SaveCheck(w)
    \/ SaveCommit(w)
    \/ SaveEndRun(w)

PipelineStep(w) ==
    \/ OpenSpider(w)
    \/ Crawl(w)
    \/ ProcessItemCheck(w)
    \/ ProcessItemCommit(w)
    \/ CloseSpider(w)

Step(w) == ScraperStep(w) \/ PipelineStep(w)

Next == \E w \in Writers : Step(w)

Spec == Init /\ [][Next]_vars

(***************************************************************************)
(* One writer, invocation after invocation, against the same store.        *)
(***************************************************************************)
InitSeq ==
    /\ InitStore
    /\ InitWriters
    /\ InitSession
    /\ InitValidator
    /\ InitFetch
    /\ remote \in Batches
    /\ adapter = [w \in Writers |-> "bbc_news"]
    /\ pc = [w \in Writers |-> "idle"]

NextSeq ==
    \/ Invoke("w1")
    \/ Step("w1")
    \/ Return("w1")

SpecSeq == InitSeq /\ [][NextSeq]_vars

(***************************************************************************)
(* A multi-adapter session: the flows of flows.py and --source all.        *)
(***************************************************************************)
\* @task(retries=3)
TaskRetries == 3

Flows == {"scrape_news_flow", "scrape_research_flow", "scrape_all_flow", "source_all"}

\* as Order, with the crawler task called first in scrape_all_flow
OrderOecdFirst(f) ==
    CASE f = "scrape_news_flow" -> <<"bbc_news">>
      [] f = "scrape_research_flow" -> <<"oecd_ai", "stanford_hai">>
      [] f = "scrape_all_flow" -> <<"oecd_ai", "bbc_news", "stanford_hai">>
      [] f = "source_all" -> <<"bbc_news", "oecd_ai", "worldbank", "stanford_hai">>
      [] OTHER -> <<>>

\* the order in which a session runs its adapters; source_all is the order
\* of the SOURCES dict, whose "reuters" entry is the BBC scraper
Order(f) ==
    CASE f = "scrape_news_flow" -> <<"bbc_news">>
      [] f = "scrape_research_flow" -> <<"oecd_ai", "stanford_hai">>
      [] f = "scrape_all_flow" -> <<"bbc_news", "oecd_ai", "stanford_hai">>
      [] f = "source_all" -> <<"bbc_news", "oecd_ai", "worldbank", "stanford_hai">>
      [] OTHER -> <<>>

\* a Prefect task is retried, a function called by main() is not
Retries(f) == IF f = "source_all" THEN 0 ELSE TaskRetries

RECURSIVE Sum(_)
Sum(s) == IF s = <<>> THEN 0 ELSE s[1] + Sum(Tail(s))

InitFlow ==
    /\ InitStore
    /\ InitWriters
    /\ InitValidator
    /\ InitFetch
    /\ remote \in Batches
    /\ adapter = [w \in Writers |-> "bbc_news"]
    /\ pc = [w \in Writers |-> "idle"]
    /\ broken \in SUBSET CanBreak
    /\ flow \in Flows
    /\ task = 1
    /\ attempt = 0
    /\ counts = <<>>
    /\ sess = "running"
    /\ total = 0
    /\ launched = {}

\* the session calls the next task / function of its order
Launch ==
    /\ sess = "running"
    /\ pc["w1"] = "idle"
    /\ task <= Len(Order(flow))
    /\ Begin("w1", Order(flow)[task])
    /\ launched' = launched \cup {Order(flow)[task]}
    /\ UNCHANGED <<storeVars, process, results, broken, flow, task, attempt, counts, sess, total>>
    /\ UNCHANGED <<validatorVars, fetchVars>>

\* the invocation returned its count: saved = fn(); total += saved
TaskDone ==
    /\ sess = "running"
    /\ pc["w1"] = "done"
    /\ counts' = Append(counts, ret["w1"])
    /\ task' = task + 1
    /\ attempt' = 0
    /\ pc' = [pc EXCEPT !["w1"] = "idle"]
    /\ UNCHANGED <<storeVars, adapter, items, idx, saved, run_id, ret, exc, log, inserted,
                   snapshot, queries, process, results, broken, flow, sess, total, launched>>
    /\ UNCHANGED <<validatorVars, fetchVars>>

\* the invocation raised and the task has retries left: it runs again
TaskRetry ==
    /\ sess = "running"
    /\ pc["w1"] = "raised"
    /\ attempt < Retries(flow)
    /\ attempt' = attempt + 1
    /\ Begin("w1", adapter["w1"])
    /\ UNCHANGED <<storeVars, process, results, broken, flow, task, counts, sess, total, launched>>
    /\ UNCHANGED <<validatorVars, fetchVars>>

\* the invocation raised and nothing catches it: the flow / main() ends here
TaskFails ==
    /\ sess = "running"
    /\ pc["w1"] = "raised"
    /\ attempt >= Retries(flow)
    /\ sess' = "failed"
    /\ pc' = [pc EXCEPT !["w1"] = "idle"]
    /\ UNCHANGED <<storeVars, adapter, items, idx, saved, run_id, ret, exc, log, inserted,
                   snapshot, queries, process, results, broken, flow, task, attempt, counts, total, launched>>
    /\ UNCHANGED <<validatorVars, fetchVars>>

\* every task returned: the total is logged and returned
SessionEnds ==
    /\ sess = "running"
    /\ pc["w1"] = "idle"
    /\ task > Len(Order(flow))
    /\ total' = Sum(counts)
    /\ sess' = "completed"
    /\ UNCHANGED <<storeVars, writerVars, broken, flow, task, attempt, counts, launched>>
    /\ UNCHANGED <<validatorVars, fetchVars>>

NextSession ==
    \/ Launch
    \/ ScraperStep("w1")
    \/ TaskDone
    \/ TaskRetry
    \/ TaskFails
    \/ SessionEnds

SpecSession == InitFlow /\ [][NextSession]_vars

(***************************************************************************)
(* The validator on its own: OECDDocument(item) for every shape of item. *)
(***************************************************************************)
Titles == {"T", "", Missing, NotAStr}
Contents == {"c", "", Missing, NotAStr}
Urls == {UrlA, UrlASlash, UrlB, UrlRelative, UrlFtp, UrlMissing, UrlNotAStr}
RawItems == {Item(t, u, c) : t \in Titles, u \in Urls, c \in Contents}

InitValidate ==
    /\ InitStore
    /\ InitWriters
    /\ InitSession
    /\ remote = <<>>
    /\ adapter = [w \in Writers |-> "bbc_news"]
    /\ pc = [w \in Writers |-> "idle"]
    /\ raw_item \in RawItems
    /\ verdict = "none"
    /\ InitFetch

\* try: doc = OECDDocument(item)  except ValidationError: continue
ValidateItem ==
    /\ verdict = "none"
    /\ verdict' = IF Validate(raw_item) THEN "accepted" ELSE "rejected"
    /\ UNCHANGED <<storeVars, writerVars, sessionVars, raw_item, fetchVars>>

SpecValidate == InitValidate /\ [][ValidateItem]_vars

(***************************************************************************)
(* A crash of the writer's process in the middle of save_to_db or of the   *)
(* crawl.                                                                  *)
(***************************************************************************)
\* as Surviving, with one transaction held open from the start of the run
SurvivingOneTransaction(store, mine) == {r \in store : r.id \notin mine}

\* what the store holds once the process is gone: each db.commit() of the
\* loop ended its own transaction, so every committed row stays; a row
\* added to a session and not yet committed was never in the store
Surviving(store, mine) == store

\* one writer, one invocation in flight against an empty store
InitCrash ==
    /\ InitStore
    /\ InitWriters
    /\ InitSession
    /\ InitValidator
    /\ InitFetch
    /\ remote \in Batches
    /\ \E a \in Adapters :
          /\ adapter = [w \in Writers |-> IF w = "w1" THEN a ELSE "bbc_news"]
          /\ pc = [w \in Writers |-> IF w = "w1" THEN Entry(a) ELSE "idle"]

\* the process dies between two statements of save_to_db / of the crawl
Crash(w) ==
    /\ pc[w] \in {"save", "loop", "insert", "crawl", "item", "item_insert"}
    /\ raw_documents' = Surviving(raw_documents, inserted[w])
    /\ pc' = [pc EXCEPT ![w] = "crashed"]
    /\ UNCHANGED <<scrape_runs, now, faults, remote, adapter, items, idx, saved, run_id, ret,
                   exc, log, inserted, snapshot, queries, process, results>>
    /\ UNCHANGED <<sessionVars, validatorVars, fetchVars>>

NextCrash == Step("w1") \/ Crash("w1")

SpecCrash == InitCrash /\ [][NextCrash]_vars

(***************************************************************************)
(* The two persistence paths on the same input: writer w1 takes a crawl    *)
(* through PostgresPipeline (open_spider, process_item for each item,       *)
(* close_spider); then the store is put back as it was and writer w2 is     *)
(* given the same sequence in one save_to_db call.                          *)
(***************************************************************************)
\* the stores the comparison starts from: empty, or holding one document
InitialStores == {{}, {NewRow({}, Item("T", UrlA, "c"))}}

InitPaths ==
    /\ raw_documents \in InitialStores
    /\ scrape_runs = {}
    /\ now = 0
    /\ faults = 0
    /\ InitWriters
    /\ InitSession
    /\ InitValidator
    /\ InitFetch
    /\ remote \in Batches \ {<<>>}
    /\ adapter = [w \in Writers |-> IF w = "w1" THEN PipelineName ELSE "oecd_ai"]
    /\ pc = [w \in Writers |-> IF w = "w1" THEN "open" ELSE "idle"]

\* the store before the first path touched it
StoreAtStart == raw_documents \ {r \in raw_documents : r.id \in inserted["w1"]}

\* the crawl is over: what it left is kept in results, raw_documents is put
\* back, and save_to_db(items) is called with the same sequence
SecondPath ==
    /\ pc["w1"] = "done"
    /\ pc["w2"] = "idle"
    /\ results' = [results EXCEPT !["w1"] = Append(@, Outcome("w1"))]
    /\ raw_documents' = StoreAtStart
    /\ snapshot' = [snapshot EXCEPT !["w2"] = StoreAtStart]
    /\ faults' = 0
    /\ items' = [items EXCEPT !["w2"] = remote]
    /\ pc' = [pc EXCEPT !["w2"] = "save"]
    /\ UNCHANGED <<scrape_runs, now, remote, adapter, idx, saved, run_id, ret, exc, log,
                   inserted, queries, process>>
    /\ UNCHANGED <<sessionVars, validatorVars, fetchVars>>

NextPaths ==
    \/ PipelineStep("w1")
    \/ SecondPath
    \/ StartRun("w2")
    \/ SaveCheck("w2")
    \/ SaveCommit("w2")
    \/ SaveEndRun("w2")

SpecPaths == InitPaths /\ [][NextPaths]_vars

(***************************************************************************)
(* One invocation under a system clock that moves.  datetime.utcnow() reads *)
(* the wall clock of the host: its reading grows by the clock's resolution  *)
(* as time passes, and the host may set it back (time synchronisation).     *)
(***************************************************************************)
InitClock == InitCrash

\* time passes by one unit of the clock's resolution
Elapse ==
    /\ now < MaxTime
    /\ now' = now + 1
    /\ UNCHANGED <<raw_documents, scrape_runs, faults, remote>>
    /\ UNCHANGED <<writerVars, sessionVars, validatorVars, fetchVars>>

\* the host's clock is stepped back to an earlier reading
ClockSetBack ==
    /\ \E t \in 0..(now - 1) : now' = t
    /\ UNCHANGED <<raw_documents, scrape_runs, faults, remote>>
    /\ UNCHANGED <<writerVars, sessionVars, validatorVars, fetchVars>>

NextClock == Step("w1") \/ Elapse \/ ClockSetBack

SpecClock == InitClock /\ [][NextClock]_vars

(***************************************************************************)
(* The batch dedup of BBCRSSScraper.run / WorldBankScraper.run on its own. *)
(***************************************************************************)
\* entries of two feeds: the same link under different titles
DedupItems == {Item(t, u, "c") : t \in {"T", "T2"}, u \in {UrlA, UrlASlash, UrlB}}

InitDedup ==
    /\ InitStore
    /\ InitWriters
    /\ InitSession
    /\ InitValidator
    /\ InitFetch
    /\ remote \in SeqsUpTo(DedupItems, MaxDedup)
    /\ adapter = [w \in Writers |-> "bbc_news"]
    /\ pc = [w \in Writers |-> "fetch"]

\* seen = set(); unique_items = []; for item in items: ...
Deduplicate ==
    /\ pc["w1"] = "fetch"
    /\ items' = [items EXCEPT !["w1"] = DedupBatch(remote)]
    /\ pc' = [pc EXCEPT !["w1"] = "deduped"]
    /\ UNCHANGED <<storeVars, adapter, idx, saved, run_id, ret, exc, log, inserted,
                   snapshot, queries, process, results, sessionVars, validatorVars,
                   fetchVars>>

SpecDedup == InitDedup /\ [][Deduplicate]_vars

(***************************************************************************)
(* The fetch loops of BBCRSSScraper.run, StanfordHAIScraper                 *)
(* ._fetch_all_entries and WorldBankScraper.run, one request a step. The   *)
(* entries of a reply are counted, not told apart: fetched holds one chunk *)
(* for each extend() that added entries.                                   *)
(***************************************************************************)
FEEDS == <<"technology", "business", "world">>
PAGE_SIZE == 50
MAX_RESULTS == 200

Readers == {"bbc_news", "stanford_hai", "worldbank"}

\* what one feed can answer: entries parsed ("ok"); a feed feedparser flags
\* as malformed (bozo) with the entries it recovered; httpx.HTTPError; any
\* other exception raised inside _fetch_feed
FeedReplies ==
    [kind : {"ok", "bozo"}, n : 0..MaxEntries]
        \cup [kind : {"http_error", "raises"}, n : {0}]

\* what one page request can be answered with: a JSON body with n usable
\* entries (the server is asked for PAGE_SIZE rows, and sends what it sends)
\* and the last_page of its meta, or an error of the request or of json()
PageSizes == {0, 1, PAGE_SIZE, PAGE_SIZE + 1}
PageReplies ==
    [kind : {"ok"}, n : PageSizes, last_page : 1..(MaxPages + 1)]
        \cup [kind : {"error"}, n : {0}, last_page : {1}]

\* items.extend(chunk) for a chunk of n entries got from src
Extend(list, src, n) == IF n = 0 THEN list ELSE Append(list, [src |-> src, n |-> n])

\* len() of the accumulated list
RECURSIVE Total(_)
Total(list) == IF list = <<>> THEN 0 ELSE Head(list).n + Total(Tail(list))

\* the entries _fetch_feed hands to items.extend: [] after httpx.HTTPError,
\* nothing when it raised, the parsed entries otherwise (a bozo feed is
\* only warned about)
FeedItems(reply) == IF reply.kind \in {"ok", "bozo"} THEN reply.n ELSE 0

\* as AfterFeed, with break in place of continue in the handler of run()
AfterFeedBreak(i, reply) ==
    IF reply.kind = "raises" \/ i = Len(FEEDS) THEN NoPage ELSE i + 1

\* for feed_url in FEEDS: the feed after feed i, whatever feed i did
AfterFeed(i, reply) == IF i = Len(FEEDS) THEN NoPage ELSE i + 1

\* as AfterPage, with a failed page skipped and the next one requested
AfterPageSkipFailed(page, reply) ==
    IF reply.kind = "error" THEN (IF page < MaxPages THEN page + 1 ELSE NoPage)
    ELSE IF reply.n = 0 \/ page >= reply.last_page THEN NoPage
    ELSE page + 1

\* _fetch_all_entries: break on an error, on an empty page and on the last
\* page; page += 1 otherwise
AfterPage(page, reply) ==
    IF reply.kind = "error" \/ reply.n = 0 \/ page >= reply.last_page
    THEN NoPage
    ELSE page + 1

\* WorldBankScraper.run: break on an error and on a page without documents;
\* offset += _PAGE_SIZE while offset < _MAX_RESULTS
AfterOffset(offset, reply) ==
    IF reply.kind = "error" \/ reply.n = 0 THEN NoPage
    ELSE IF offset + PAGE_SIZE < MAX_RESULTS THEN offset + PAGE_SIZE
    ELSE NoPage

\* items = [] / entries = []; offset = 0 / page = 1
FirstRequest(a) == IF a = "worldbank" THEN 0 ELSE 1

InitFetching ==
    /\ InitStore
    /\ InitWriters
    /\ InitSession
    /\ InitValidator
    /\ remote = <<>>
    /\ \E a \in Readers :
          /\ adapter = [w \in Writers |-> IF w = "w1" THEN a ELSE "bbc_news"]
          /\ cursor = FirstRequest(a)
    /\ pc = [w \in Writers |-> IF w = "w1" THEN "reading" ELSE "idle"]
    /\ fetched = <<>>
    /\ requests = <<>>
    /\ replies = <<>>
    /\ pending = {}
    /\ answers = NoAnswers
    /\ handled = {}

\* the request of one feed, page or offset went out and was answered
Answered(w, reply, chunk, next) ==
    /\ requests' = Append(requests, cursor)
    /\ replies' = Append(replies, reply)
    /\ fetched' = Extend(fetched, cursor, chunk)
    /\ cursor' = next
    /\ pc' = [pc EXCEPT ![w] = IF next = NoPage THEN "fetched" ELSE "reading"]
    /\ UNCHANGED <<storeVars, adapter, items, idx, saved, run_id, ret, exc, log, inserted,
                   snapshot, queries, process, results, sessionVars, validatorVars,
                   pending, answers, handled>>

\* BBCRSSScraper.run: one turn of for feed_url in FEEDS
FetchFeed(w) ==
    /\ pc[w] = "reading"
    /\ adapter[w] = "bbc_news"
    /\ \E reply \in FeedReplies :
          Answered(w, reply, FeedItems(reply), AfterFeed(cursor, reply))

\* StanfordHAIScraper._fetch_all_entries: one turn of while True
FetchPage(w) ==
    /\ pc[w] = "reading"
    /\ adapter[w] = "stanford_hai"
    /\ cursor <= MaxPages
    /\ \E reply \in PageReplies :
          Answered(w, reply, reply.n, AfterPage(cursor, reply))

\* WorldBankScraper.run: one turn of while offset < _MAX_RESULTS
FetchOffset(w) ==
    /\ pc[w] = "reading"
    /\ adapter[w] = "worldbank"
    /\ \E reply \in {r \in PageReplies : r.last_page = 1} :
          Answered(w, reply, reply.n, AfterOffset(cursor, reply))

NextFetching == FetchFeed("w1") \/ FetchPage("w1") \/ FetchOffset("w1")

SpecFetching == InitFetching /\ [][NextFetching]_vars

(***************************************************************************)
(* The crawl of OECDAISpider under the project's settings: the scheduler,  *)
(* the retry of transient failures (RETRY_TIMES, RETRY_HTTP_CODES), the    *)
(* callbacks parse and parse_article and the errback _handle_error.        *)
(***************************************************************************)
RETRY_TIMES == 2

\* a request as the scheduler holds it: retries is the retry_times of its
\* meta; errback says whether it was built with errback=self._handle_error
\* (the requests made from start_urls have none)
Request(url, retries) == [url |-> url, retries |-> retries, errback |-> url \in Articles]

\* what a request can be answered with: a page ("ok") that links to some
\* articles and has a title or not, a status of RETRY_HTTP_CODES or a
\* timeout ("transient"), another HTTP error ("not_found")
CrawlReplies(req) ==
    IF req.url \in StartUrls
    THEN [kind : {"ok"}, links : SUBSET Articles, titled : {FALSE}]
            \cup [kind : {"transient", "not_found"}, links : {{}}, titled : {FALSE}]
    ELSE [kind : {"ok"}, links : {{}}, titled : BOOLEAN]
            \cup [kind : {"transient", "not_found"}, links : {{}}, titled : {FALSE}]

\* as Retried, with one retry more than RETRY_TIMES allows
RetriedOnceMore(req, reply) == reply.kind = "transient" /\ req.retries < RETRY_TIMES + 1

\* the retry of a transient failure: the request goes back to the scheduler
\* while its retry_times is below RETRY_TIMES
Retried(req, reply) == reply.kind = "transient" /\ req.retries < RETRY_TIMES

\* the request is given up: its failure goes to the errback, if it has one
GivenUp(req, reply) == reply.kind # "ok" /\ ~Retried(req, reply)

\* the URLs requested so far, and those the duplicate filter has seen
Requested == {u \in DOMAIN answers : answers[u] # <<>>}
Seen == {r.url : r \in pending} \cup Requested

\* parse: the requests _parse_sitemap / _parse_page yield for the links of
\* a start page, less those the duplicate filter drops
Discovered(req, reply) ==
    IF reply.kind = "ok"
    THEN {Request(u, 0) : u \in reply.links \ (Seen \cup {req.url})}
    ELSE {}

\* parse_article: one item for a page that has a title
Emitted(req, reply) ==
    IF reply.kind = "ok" /\ req.url \in Articles /\ reply.titled THEN 1 ELSE 0

InitCrawl ==
    /\ InitStore
    /\ InitWriters
    /\ InitSession
    /\ InitValidator
    /\ remote = <<>>
    /\ adapter = [w \in Writers |-> IF w = "w1" THEN "oecd_ai" ELSE "bbc_news"]
    /\ pc = [w \in Writers |-> IF w = "w1" THEN "crawling" ELSE "idle"]
    /\ cursor = NoPage
    /\ fetched = <<>>
    /\ requests = <<>>
    /\ replies = <<>>
    /\ pending = {Request(u, 0) : u \in StartUrls}
    /\ answers = NoAnswers
    /\ handled = {}

\* one request leaves the scheduler and is answered: it is retried, or given
\* up, or its callback runs
Download(w) ==
    /\ pc[w] = "crawling"
    /\ \E req \in pending :
          \E reply \in CrawlReplies(req) :
              /\ answers' = [answers EXCEPT ![req.url] = Append(@, reply)]
              /\ pending' = (pending \ {req})
                                \cup (IF Retried(req, reply)
                                      THEN {Request(req.url, req.retries + 1)}
                                      ELSE {})
                                \cup Discovered(req, reply)
              /\ handled' = IF GivenUp(req, reply) /\ req.errback
                            THEN handled \cup {req.url}
                            ELSE handled
              /\ fetched' = Extend(fetched, req.url, Emitted(req, reply))
    /\ pc' = [pc EXCEPT ![w] = IF pending' = {} THEN "crawled" ELSE "crawling"]
    /\ UNCHANGED <<storeVars, adapter, items, idx, saved, run_id, ret, exc, log, inserted,
                   snapshot, queries, process, results, sessionVars, validatorVars,
                   cursor, requests, replies>>

NextCrawl == Download("w1")

SpecCrawl == InitCrawl /\ [][NextCrawl]_vars

(***************************************************************************)
(* The schema, as the ORM models declare it (what create_tables() creates) *)
(* and as the initial migration creates it: table -> column -> attributes. *)
(***************************************************************************)
Col(type, nullable) ==
    [type |-> type, nullable |-> nullable, unique |-> FALSE, primary_key |-> FALSE]
Key(type) ==
    [type |-> type, nullable |-> FALSE, unique |-> FALSE, primary_key |-> TRUE]
Unique(type, nullable) ==
    [type |-> type, nullable |-> nullable, unique |-> TRUE, primary_key |-> FALSE]

\* class RawDocument(Base), class ScrapeRun(Base)
ModelTables ==
    [ raw_documents |->
        [ id |-> Key("UUID"),
          source_url |-> Unique("String", FALSE),
          title |-> Col("String", TRUE),
          content |-> Col("Text", TRUE),
          country |-> Col("String", TRUE),
          source_name |-> Col("String", TRUE),
          scraped_at |-> Col("DateTime", FALSE),
          processed |-> Col("Boolean", FALSE),
          metadata |-> Col("JSON", TRUE) ],
      scrape_runs |->
        [ id |-> Key("UUID"),
          source_name |-> Col("String", FALSE),
          started_at |-> Col("DateTime", FALSE),
          ended_at |-> Col("DateTime", TRUE),
          docs_scraped |-> Col("Integer", FALSE),
          status |-> Col("String", FALSE),
          error_message |-> Col("Text", TRUE) ] ]

\* as MigrationTables, with the unique constraint of source_url left out of
\* the migration
MigrationWithoutUnique ==
    [ModelTables EXCEPT !.raw_documents.source_url = Col("String", FALSE)]

\* upgrade() of revision 0001: the two op.create_table calls
MigrationTables ==
    [ raw_documents |->
        [ id |-> Key("UUID"),
          source_url |-> Unique("String", FALSE),
          title |-> Col("String", TRUE),
          content |-> Col("Text", TRUE),
          country |-> Col("String", TRUE),
          source_name |-> Col("String", TRUE),
          scraped_at |-> Col("DateTime", FALSE),
          processed |-> Col("Boolean", FALSE),
          metadata |-> Col("JSON", TRUE) ],
      scrape_runs |->
        [ id |-> Key("UUID"),
          source_name |-> Col("String", FALSE),
          started_at |-> Col("DateTime", FALSE),
          ended_at |-> Col("DateTime", TRUE),
          docs_scraped |-> Col("Integer", FALSE),
          status |-> Col("String", FALSE),
          error_message |-> Col("Text", TRUE) ] ]

(***************************************************************************)
(* Properties.                                                             *)
(***************************************************************************)
Outcomes(w, u) == {log[w][i].outcome : i \in {j \in 1..Len(log[w]) : log[w][j].url = u}}
CountOf(w, o) == Cardinality({i \in 1..Len(log[w]) : log[w][i].outcome = o})
StoredUrls == {r.source_url : r \in raw_documents}
RunsOf(w) == {r \in scrape_runs : r.id = run_id[w]}

\* C1: whatever the writers do, through save_to_db or through process_item,
\* no two rows of raw_documents have the same source_url.
C1_UniqueSourceUrl ==
    \A r1, r2 \in raw_documents : r1.source_url = r2.source_url => r1 = r2

\* a pipeline writer and a scraper writer went for the same URL: one row
\* stands, the other writer's commit was refused
C1_Witness ==
    \E w1, w2 \in Writers : \E u \in StoredUrls :
        /\ adapter[w1] = PipelineName
        /\ adapter[w2] \in ScraperNames
        /\ "conflict" \in Outcomes(w1, u)
        /\ "inserted" \in Outcomes(w2, u)
        /\ Cardinality(raw_documents) = 2

\* a writer whose check found u absent and whose commit the store answered
Raced(w, u) ==
    \E i \in 1..Len(log[w]) : log[w][i].url = u /\ log[w][i].outcome \in {"inserted", "conflict"}

\* how many times w committed a row for u
Commits(w, u) ==
    Cardinality({i \in 1..Len(log[w]) : log[w][i].url = u /\ log[w][i].outcome = "inserted"})

\* C2: when two writers both pass the duplicate check for the same new URL,
\* exactly one commits it and counts it, the other's commit is refused and
\* skipped without a count, and no error of the item reaches a caller.
C2_RaceSafety ==
    \A u \in StoredUrls :
        (\A w \in Writers : Raced(w, u)) =>
            /\ Commits("w1", u) + Commits("w2", u) = 1
            /\ \A w \in Writers :
                  /\ saved[w] = CountOf(w, "inserted")
                  /\ exc[w] \in {"", "run_tracking"}

C2_Witness ==
    \E w1, w2 \in Writers : \E u \in StoredUrls :
        /\ w1 # w2
        /\ Commits(w1, u) = 1
        /\ "conflict" \in Outcomes(w2, u)
        /\ pc[w1] = "done" /\ pc[w2] = "done"
        /\ ret[w1] = 1 /\ ret[w2] = 0

\* the ended invocations of the one writer of SpecSeq, oldest first
Ended1 == results["w1"]

\* invocation k repeats invocation k - 1: the same adapter, both returned
Repeats(k) ==
    /\ Ended1[k].adapter = Ended1[k - 1].adapter
    /\ ~Ended1[k - 1].raised
    /\ ~Ended1[k].raised

C4_CountsCommittedRows ==
    \A w \in Writers :
        pc[w] = "done" =>
            /\ inserted[w] \subseteq {r.id : r \in raw_documents}
            /\ ret[w] = Cardinality(inserted[w])
            /\ \A r \in RunsOf(w) :
                  r.status = "success" /\ r.docs_scraped = Cardinality(inserted[w])

\* a returned invocation of two items: one committed, one lost to a race
C4_Witness ==
    \E w \in Writers :
        /\ pc[w] = "done"
        /\ Len(items[w]) = 2
        /\ CountOf(w, "conflict") = 1
        /\ \E r \in RunsOf(w) : r.docs_scraped = 1
        /\ Cardinality(inserted[w]) = 1

\* C5 as stated: every invocation that has ended, whether it returned or
\* raised, created exactly one row of scrape_runs.
C5_OneRunPerInvocation ==
    \A w \in Writers :
        pc[w] \in {"done", "raised"} => Cardinality(RunsOf(w)) = 1

\* C6: a run's status is running, success or failed; ended_at is set exactly
\* when the status is not running; the status changes at most once, from
\* running, and a finalized run is never written again.
C6_RunLifecycle ==
    /\ [](\A r \in scrape_runs :
             /\ r.status \in {"running", "success", "failed"}
             /\ (r.ended_at # NoTime) <=> (r.status # "running"))
    /\ [][\A r \in scrape_runs :
             \E r2 \in scrape_runs' :
                 /\ r2.id = r.id
                 /\ r.status # "running" => r2 = r
                 /\ r2.status # r.status => r2.status \in {"success", "failed"}]_vars

\* one run finalized while another is still running
C6_Witness ==
    \E r1, r2 \in scrape_runs :
        /\ r1.status = "success" /\ r1.ended_at # NoTime /\ r1.docs_scraped = 1
        /\ r2.status = "running" /\ r2.ended_at = NoTime

\* C7 as stated: once an invocation that started a run has ended, the run is
\* finalized, and as failed with a message when the invocation raised.
C7_StartedRunsAreFinalized ==
    \A w \in Writers : \A r \in RunsOf(w) :
        /\ pc[w] \in {"done", "raised"} => r.status # "running"
        /\ pc[w] = "raised" => r.status = "failed" /\ r.error_message # ""

\* C8 as stated: no fetch of an invocation is over before its run exists.
C8_RunStartsBeforeFetch ==
    \A w \in Writers :
        pc[w] \in {"save", "loop", "insert", "item", "item_insert", "done"} =>
            RunsOf(w) # {}

Range(f) == {f[i] : i \in DOMAIN f}

\* C9 as stated: when a session is over, every adapter of its order was
\* run, whichever of them raised, and the total it reported is the sum of
\* the counts of the adapters that returned.
C9_FailureContained ==
    (flow \in {"scrape_all_flow", "scrape_research_flow", "source_all"} /\ sess # "running") =>
        /\ launched = Range(Order(flow))
        /\ sess = "completed"
        /\ total = Sum(counts)

\* the malformed-URL half of the claim: a value that is no string, or a
\* string with no scheme or no host
NotAbsoluteUrl(u) == u.kind # "str" \/ u.scheme = "" \/ u.host = ""

\* C10 as stated: the validator rejects an item whose title is empty or
\* missing, whose source_url is not a well-formed absolute URL or whose
\* required fields are not strings, and accepts an item with a non-empty
\* title, a well-formed http(s) URL and a string content, empty or not.
C10_ValidatorContract ==
    verdict # "none" =>
        /\ ( \/ raw_item.title \in {"", Missing, NotAStr}
             \/ NotAbsoluteUrl(raw_item.source_url)
             \/ raw_item.content \in {Missing, NotAStr} ) => verdict = "rejected"
        /\ ( /\ raw_item.title \notin {"", Missing, NotAStr}
             /\ IsHttpUrl(raw_item.source_url)
             /\ raw_item.content \notin {Missing, NotAStr} ) => verdict = "accepted"

\* the writers that run save_to_db
Savers == {w \in Writers : adapter[w] \in ScraperNames}

\* C11: an item that fails validation is never inserted and never ends the
\* call; the items after it are still taken in turn, and each valid one that
\* no store error hit is in the store when the call returns, whose run is
\* then finished.
C11_RejectionNonFatal ==
    \A w \in Savers :
        /\ exc[w] # "invalid"
        /\ \A i \in 1..Len(log[w]) :
              ~Validate(items[w][i]) =>
                  /\ log[w][i].outcome = "invalid"
                  /\ pc[w] \in {"loop", "insert", "done"} \/ exc[w] = "run_tracking"
        /\ \A r \in raw_documents : IsStr(r.title) /\ IsHttpUrl(r.source_url) /\ IsStr(r.content)
        /\ pc[w] = "done" /\ items[w] # <<>> =>
              /\ Len(log[w]) = Len(items[w])
              /\ \A i \in 1..Len(items[w]) :
                    (Validate(items[w][i]) /\ log[w][i].outcome # "error") =>
                        UrlStr(items[w][i].source_url) \in StoredUrls
              /\ \A r \in RunsOf(w) : r.status = "success"

\* a batch whose first item is rejected and whose second is stored
C11_Witness ==
    \E w \in Savers :
        /\ pc[w] = "done"
        /\ Len(items[w]) = 2
        /\ ~Validate(items[w][1])
        /\ log[w][1].outcome = "invalid"
        /\ log[w][2].outcome = "inserted"
        /\ ret[w] = 1
        /\ \E r \in RunsOf(w) : r.status = "success" /\ r.docs_scraped = 1

\* C12: a store error other than the uniqueness conflict, raised by the
\* duplicate query or by the commit of one document, skips that document
\* alone: no row and no count come of it, the call does not raise because of
\* it, and the documents after it are still taken in turn.
C12_StoreErrorSkipsOneDocument ==
    \A w \in Savers :
        /\ exc[w] # "error"
        /\ saved[w] = CountOf(w, "inserted")
        /\ Cardinality(inserted[w]) = CountOf(w, "inserted")
        /\ \A i \in 1..Len(log[w]) :
              log[w][i].outcome = "error" =>
                  pc[w] \in {"loop", "insert", "done"} \/ exc[w] = "run_tracking"
        /\ pc[w] = "done" /\ items[w] # <<>> =>
              /\ Len(log[w]) = Len(items[w])
              /\ ret[w] = CountOf(w, "inserted")

\* the first document of a batch hit a store error, the second was stored
C12_Witness ==
    \E w \in Savers :
        /\ pc[w] = "done"
        /\ Len(items[w]) = 2
        /\ log[w][1].outcome = "error"
        /\ log[w][1].url \notin StoredUrls
        /\ log[w][2].outcome = "inserted"
        /\ ret[w] = 1

\* C13 as stated: validation comes before the two dedup passes, so the
\* batch that the dedup passes hand to the persist step holds only items that
\* passed validation.
C13_DedupAfterValidation ==
    \A w \in Writers :
        (adapter[w] \in Deduping /\ pc[w] \in {"save", "loop", "insert", "done"}) =>
            \A i \in 1..Len(items[w]) : Validate(items[w][i])

\* the places of a list that hold the first entry of their source_url
FirstPlaces(s) == {i \in 1..Len(s) : \A j \in 1..(i - 1) : s[j].source_url # s[i].source_url}

\* the k-th smallest member of a set of places
NthPlace(S, k) == CHOOSE i \in S : Cardinality({j \in S : j < i}) = k - 1

\* C14: the batch dedup returns the first entry of each source_url, in fetch
\* order; its result repeats no source_url and misses none of the input's.
C14_BatchDedup ==
    pc["w1"] = "deduped" =>
        LET out == items["w1"]
        IN /\ Len(out) = Cardinality(FirstPlaces(remote))
           /\ \A k \in 1..Len(out) : out[k] = remote[NthPlace(FirstPlaces(remote), k)]
           /\ \A i, j \in 1..Len(out) : out[i].source_url = out[j].source_url => i = j
           /\ {out[k].source_url : k \in 1..Len(out)}
                 = {remote[k].source_url : k \in 1..Len(remote)}

\* links a, b, a: the first a and b come back, in that order
C14_Witness ==
    /\ pc["w1"] = "deduped"
    /\ Len(remote) = 3
    /\ remote[1].source_url = remote[3].source_url
    /\ remote[1] # remote[3]
    /\ remote[2].source_url # remote[1].source_url
    /\ items["w1"] = <<remote[1], remote[2]>>

\* C15 as stated: the store filter compares the key under which save_to_db
\* stores a document, so when its query succeeded (no store failure so far)
\* no item it lets through is one the store already holds under that key.
C15_FilterUsesStoredKey ==
    (adapter["w1"] \in Deduping /\ pc["w1"] = "save" /\ faults = 0) =>
        \A i \in 1..Len(items["w1"]) :
            Validate(items["w1"][i]) => UrlStr(items["w1"][i].source_url) \notin StoredUrls

\* C16 as stated: the existence check of an invocation is one batched query,
\* so an invocation that returned has sent raw_documents at most one
\* existence query, however many items its batch held.
C16_OneExistenceQuery ==
    \A w \in Savers : pc[w] = "done" => queries[w] <= 1

\* the batch run() of adapter a hands to _filter_existing
Unfiltered(a) == IF a \in {"bbc_news", "worldbank"} THEN DedupBatch(remote) ELSE remote

\* C17: when the batched existence query fails, _filter_existing raises
\* nothing and returns the whole batch it was given, and the store still
\* never holds two rows of one source_url.
C17_FailedQueryKeepsBatch ==
    /\ [](\A r1, r2 \in raw_documents : r1.source_url = r2.source_url => r1.id = r2.id)
    /\ [][\A w \in Writers :
             (pc[w] = "fetch" /\ queries'[w] > queries[w] /\ faults' > faults) =>
                 /\ pc'[w] = "save"
                 /\ exc'[w] = ""
                 /\ items'[w] = Unfiltered(adapter[w])]_vars

\* an item whose key the store held when the invocation began came through
\* the filter all the same, which only a failed query allows, and the
\* per-item check of save_to_db turned it away
C17_Witness ==
    /\ adapter["w1"] \in Deduping
    /\ pc["w1"] = "done"
    /\ \E i \in 1..Len(items["w1"]) :
          /\ items["w1"][i].source_url \in {r.source_url : r \in snapshot["w1"]}
          /\ log["w1"][i].outcome = "duplicate"
    /\ ret["w1"] = 0
    /\ raw_documents = snapshot["w1"]

\* the adapters a session has started, as the front of a given order
StartedFrontOf(order) == launched = {order[i] : i \in 1..Cardinality(launched)}

\* C18: a session runs its adapters one at a time, each begun only when all
\* begun before it have ended, on the session's one thread of control, and
\* in a fixed order, which for scrape_all_flow is BBC, OECD, Stanford HAI.
C18_OneAtATimeInOrder ==
    flow \in Flows =>
        /\ pc["w2"] = "idle"
        /\ Cardinality(launched) <= Len(Order(flow))
        /\ StartedFrontOf(Order(flow))
        /\ flow = "scrape_all_flow" => StartedFrontOf(<<"bbc_news", "oecd_ai", "stanford_hai">>)
        /\ flow = "scrape_research_flow" => StartedFrontOf(<<"oecd_ai", "stanford_hai">>)
        /\ pc["w1"] # "idle" =>
              /\ launched # {}
              /\ adapter["w1"] = Order(flow)[Cardinality(launched)]
              /\ Len(counts) = Cardinality(launched) - 1

\* scrape_all_flow ran its three adapters to the end and stored something
C18_Witness ==
    /\ flow = "scrape_all_flow"
    /\ sess = "completed"
    /\ launched = {"bbc_news", "oecd_ai", "stanford_hai"}
    /\ Len(counts) = 3
    /\ total > 0

\* C19 as stated: in one process OECDScraper.run, and with it the start of
\* the reactor, is executed at most once, retries of run_oecd_task included.
C19_ReactorStartedOnce ==
    \A w \in Writers : process[w].oecd_runs <= 1

\* every column of a stored row is set
Complete(r) ==
    /\ DOMAIN r = {"id", "source_url", "title", "content", "processed"}
    /\ IsStr(r.title) /\ IsHttpUrl(r.source_url) /\ IsStr(r.content)
    /\ r.processed = FALSE

\* C20: when the process crashes during save_to_db, the store holds exactly
\* the documents whose insert was committed, each of them whole, and the
\* only unfinished record is the run, still running.
C20_CrashKeepsCommittedRows ==
    pc["w1"] = "crashed" =>
        /\ {r.id : r \in raw_documents} = inserted["w1"]
        /\ Cardinality(raw_documents) = CountOf("w1", "inserted")
        /\ \A r \in raw_documents : Complete(r)
        /\ \A r \in RunsOf("w1") : r.status = "running" /\ r.ended_at = NoTime
        /\ Cardinality(scrape_runs) <= 1

\* the crash came after the first of two documents was committed
C20_Witness ==
    /\ pc["w1"] = "crashed"
    /\ adapter["w1"] \in ScraperNames
    /\ Len(items["w1"]) = 2
    /\ idx["w1"] = 2
    /\ log["w1"] = <<[url |-> UrlStr(items["w1"][1].source_url), outcome |-> "inserted"]>>
    /\ Cardinality(raw_documents) = 1
    /\ \E r \in RunsOf("w1") : r.status = "running"

\* C21: save_to_db goes on past the start only with its run created and
\* returns a count only with its run finalized; when the creation fails it
\* raises with no document stored, when the finalization fails it raises
\* and returns nothing; no error of a single item ever leaves it.
C21_RunTrackingErrorPropagates ==
    \A w \in Savers :
        /\ exc[w] \in {"", "fetch", "run_tracking"}
        /\ exc[w] # "" <=> pc[w] = "raised"
        /\ pc[w] \in {"loop", "insert"} => \E r \in RunsOf(w) : r.status = "running"
        /\ (pc[w] = "done" /\ items[w] # <<>>) => \E r \in RunsOf(w) : r.status = "success"
        /\ exc[w] = "run_tracking" =>
              /\ ret[w] = 0
              /\ run_id[w] = NoId => log[w] = <<>> /\ inserted[w] = {}
              /\ run_id[w] # NoId =>
                    /\ Len(log[w]) = Len(items[w])
                    /\ \A r \in RunsOf(w) : r.status = "running"

\* the run of a batch of two could not be created: the call raised at once
C21_Witness ==
    \E w \in Savers :
        /\ pc[w] = "raised"
        /\ exc[w] = "run_tracking"
        /\ run_id[w] = NoId
        /\ Len(items[w]) = 2
        /\ \A i \in 1..2 : Validate(items[w][i])
        /\ raw_documents = {}

\* C22: no step of the core changes or removes a stored document: a step
\* leaves raw_documents as it was or adds one row, with a fresh id and
\* processed = FALSE, and every row there before is there still, field for
\* field.
C22_RowsNeverUpdated ==
    [][/\ raw_documents \subseteq raw_documents'
       /\ Cardinality(raw_documents' \ raw_documents) <= 1
       /\ \A r \in raw_documents' \ raw_documents :
             /\ r.processed = FALSE
             /\ r.id \notin {q.id : q \in raw_documents}]_vars

\* a stored row outlived a later check that found it and a later commit
\* that collided with it
C22_Witness ==
    \E r \in raw_documents :
        /\ r.id = 1
        /\ r.processed = FALSE
        /\ \E w \in Writers : "conflict" \in Outcomes(w, r.source_url)
        /\ \E w \in Writers : "duplicate" \in Outcomes(w, r.source_url)
        /\ \A w \in Writers : pc[w] = "done"

\* C23 as stated: every run recorded with status success has an ended_at
\* strictly later than its started_at.
C23_EndsStrictlyAfterStart ==
    \A r \in scrape_runs : r.status = "success" => r.ended_at > r.started_at

\* the weaker reading, ended_at no earlier than started_at, which a clock
\* set back between the two readings refutes as well
C23_EndsNoEarlierThanStart ==
    \A r \in scrape_runs : r.status = "success" => r.ended_at >= r.started_at

\* C24: store errors on the inserts never mark a run failed: when save_to_db
\* has returned from a batch in which the query or the commit of some or all
\* documents raised a non-duplicate store error, the run of the invocation is
\* finalized with status success and docs_scraped equal to the number of
\* commits that returned, and no run ever carries another status than
\* running or success.
C24_StoreErrorsLeaveRunSuccess ==
    /\ \A r \in scrape_runs : r.status \in {"running", "success"}
    /\ \A w \in Savers :
          (pc[w] = "done" /\ CountOf(w, "error") > 0) =>
              /\ RunsOf(w) # {}
              /\ \A r \in RunsOf(w) :
                    /\ r.status = "success"
                    /\ r.ended_at # NoTime
                    /\ r.docs_scraped = CountOf(w, "inserted")
                    /\ r.docs_scraped = Cardinality(inserted[w])
              /\ ret[w] = CountOf(w, "inserted")

\* every insert of the batch failed with a store error and the run was
\* finalized with status success and docs_scraped = 0
C24_Witness ==
    \E w \in Savers :
        /\ pc[w] = "done"
        /\ Len(items[w]) >= 1
        /\ CountOf(w, "error") = Len(items[w])
        /\ inserted[w] = {}
        /\ \E r \in RunsOf(w) : r.status = "success" /\ r.docs_scraped = 0

\* the requests of one invocation of the feed reader, and whether it is over
FeedReader == adapter["w1"] = "bbc_news"
Fetched == pc["w1"] = "fetched"

\* the chunks of fetched got from src
ChunksOf(src) == {i \in 1..Len(fetched) : fetched[i].src = src}

PagedReader == adapter["w1"] \in {"stanford_hai", "worldbank"}

\* the distance between two successive requests: page += 1, offset += _PAGE_SIZE
Stride == IF adapter["w1"] = "worldbank" THEN PAGE_SIZE ELSE 1

C27_AtMostMaxResults ==
    adapter["w1"] = "worldbank" => Total(fetched) <= MAX_RESULTS

\* the last answer of URL u, and whether u was dropped: its last request
\* failed and was not sent again
LastOf(u) == answers[u][Len(answers[u])]
Dropped(u) ==
    /\ u \in Requested
    /\ u \notin {r.url : r \in pending}
    /\ LastOf(u).kind # "ok"

\* C28: in the crawl a request that fails transiently is retried at most
\* RETRY_TIMES more times; the URL whose retries are used up is dropped
\* alone, through _handle_error for a request the spider built and with no
\* item, and the crawl goes on: it ends only when the scheduler is empty,
\* every link found has been scheduled, and every article page that
\* answered with a title has its one item.
C28_RetryThenDropOne ==
    pc["w1"] \in {"crawling", "crawled"} =>
        /\ \A u \in Requested :
              /\ Len(answers[u]) <= 1 + RETRY_TIMES
              /\ \A i \in 1..(Len(answers[u]) - 1) : answers[u][i].kind = "transient"
              /\ Dropped(u) => ChunksOf(u) = {} /\ (u \in Articles => u \in handled)
              /\ (Dropped(u) /\ LastOf(u).kind = "transient") =>
                    Len(answers[u]) = 1 + RETRY_TIMES
              /\ LastOf(u).links \subseteq Seen
              /\ Cardinality(ChunksOf(u)) = IF LastOf(u).kind = "ok" /\ LastOf(u).titled
                                            THEN 1 ELSE 0
        /\ \A r \in pending : r.retries = Len(answers[r.url])
        /\ \A u \in handled : Dropped(u)
        /\ pc["w1"] = "crawled" <=> pending = {}

\* article a was given up after its third transient failure and handed to
\* _handle_error; article b, found on the same pages, was fetched and its
\* item emitted
C28_Witness ==
    /\ pc["w1"] = "crawled"
    /\ Len(answers["wonk/a"]) = 1 + RETRY_TIMES
    /\ LastOf("wonk/a").kind = "transient"
    /\ handled = {"wonk/a"}
    /\ LastOf("policy-areas").links = Articles
    /\ fetched = <<[src |-> "wonk/b", n |-> 1]>>

\* the columns the unit tests expect of the two tables
RawDocumentColumns ==
    {"id", "source_url", "title", "content", "country", "source_name", "scraped_at",
     "processed", "metadata"}
ScrapeRunColumns ==
    {"id", "source_name", "started_at", "ended_at", "docs_scraped", "status", "error_message"}

\* C29: the schema has exactly the two tables raw_documents and
\* scrape_runs, each with exactly its columns, in the ORM models and in the
\* initial migration alike, source_url being unique and not nullable in
\* both; and every row the writers store fits it: its fields are columns of
\* its table and its source_url is a string, never NULL.
C29_SchemaAsDeclared ==
    /\ \A tables \in {ModelTables, MigrationTables} :
          /\ DOMAIN tables = {"raw_documents", "scrape_runs"}
          /\ DOMAIN tables.raw_documents = RawDocumentColumns
          /\ DOMAIN tables.scrape_runs = ScrapeRunColumns
          /\ tables.raw_documents.source_url.unique
          /\ ~tables.raw_documents.source_url.nullable
    /\ \A t \in DOMAIN ModelTables : DOMAIN ModelTables[t] = DOMAIN MigrationTables[t]
    /\ \A r \in raw_documents :
          DOMAIN r \subseteq RawDocumentColumns /\ r.source_url.kind = "str"
    /\ \A r \in scrape_runs : DOMAIN r = ScrapeRunColumns

\* both tables hold a row written by the core
C29_Witness ==
    /\ \E r \in raw_documents : r.source_url = UrlStr(UrlA)
    /\ \E r \in scrape_runs : r.status = "success" /\ r.docs_scraped = 1
    /\ pc["w1"] = "done"

\* C30: the fetch persists nothing: the step that is run() of an adapter,
\* whether it returns or raises, leaves raw_documents and scrape_runs as
\* they were; in an invocation of an adapter the two tables change only
\* inside save_to_db, and a row enters raw_documents only together with the
\* one "inserted" entry that save_to_db logs for its item.
C30_FetchPersistsNothing ==
    [][/\ pc["w1"] = "fetch" =>
             raw_documents' = raw_documents /\ scrape_runs' = scrape_runs
       /\ (adapter["w1"] \in ScraperNames
             /\ (raw_documents' # raw_documents \/ scrape_runs' # scrape_runs)) =>
                pc["w1"] \in {"save", "loop", "insert"}
       /\ (adapter["w1"] \in ScraperNames /\ raw_documents' # raw_documents) =>
             /\ Cardinality(raw_documents' \ raw_documents) = 1
             /\ Len(log'["w1"]) = Len(log["w1"]) + 1
             /\ log'["w1"][Len(log'["w1"])].outcome = "inserted"
             /\ \A r \in raw_documents' \ raw_documents :
                   r.source_url = log'["w1"][Len(log'["w1"])].url]_vars

\* OECDScraper.run has returned a valid new item in a later invocation:
\* the store is as the invocation found it and no run has been added
C30_Witness ==
    /\ adapter["w1"] = "oecd_ai"
    /\ pc["w1"] = "save"
    /\ Len(results["w1"]) = 1
    /\ items["w1"] # <<>>
    /\ Validate(items["w1"][1])
    /\ ~Exists(raw_documents, UrlStr(items["w1"][1].source_url))
    /\ raw_documents # {}
    /\ raw_documents = snapshot["w1"]
    /\ \A r \in scrape_runs : r.status = "success"

\* C31: under every interleaving of concurrent invocations whose batches
\* may overlap, each stored document is counted by exactly one invocation:
\* no row is in the tally of two writers, the tallies add up to the rows
\* added to raw_documents, and an invocation that returns returns its tally.
C31_EachRowCountedOnce ==
    /\ inserted["w1"] \cap inserted["w2"] = {}
    /\ inserted["w1"] \cup inserted["w2"] = {r.id : r \in raw_documents}
    /\ saved["w1"] + saved["w2"] = Cardinality(raw_documents)
    /\ \A w \in Writers : saved[w] = Cardinality(inserted[w])
    /\ (\A w \in Writers : pc[w] = "done") =>
          ret["w1"] + ret["w2"] = Cardinality(raw_documents)

\* two save_to_db invocations with overlapping batches both returned: each
\* stored one document, and the one both went for is counted by the writer
\* whose commit won
C31_Witness ==
    /\ \A w \in Writers : w \in Savers /\ pc[w] = "done" /\ Len(items[w]) = 2
    /\ ret["w1"] = 1
    /\ ret["w2"] = 1
    /\ Cardinality(raw_documents) = 2
    /\ CountOf("w1", "conflict") = 1
    /\ \E u \in StoredUrls : Raced("w1", u) /\ Raced("w2", u)

\* a stored document, its generated id left aside
Doc(r) == [source_url |-> r.source_url, title |-> r.title, content |-> r.content,
           processed |-> r.processed]
Docs(store) == {Doc(r) : r \in store}

\* both paths have gone through the sequence
BothPathsDone == pc["w1"] = "done" /\ pc["w2"] = "done"

\* C32: for a non-empty item sequence and an initial store, the crawl through
\* PostgresPipeline and one save_to_db call on the same sequence, the store
\* answering both alike, take every item the same way and leave the same
\* set of stored documents and a run with the same status and docs_scraped;
\* when the store fails for neither, the two always take every item alike.
C32_PathsEquivalent ==
    BothPathsDone =>
        /\ (CountOf("w1", "error") = 0 /\ CountOf("w2", "error") = 0) => log["w1"] = log["w2"]
        /\ log["w1"] = log["w2"] =>
              /\ Docs(raw_documents) = Docs(results["w1"][1].after)
              /\ ret["w1"] = ret["w2"]
              /\ RunsOf("w1") # {} /\ RunsOf("w2") # {}
              /\ \A r1 \in RunsOf("w1") : \A r2 \in RunsOf("w2") :
                    /\ r1.status = r2.status
                    /\ r1.docs_scraped = r2.docs_scraped

\* both paths met a document that was stored already and a new one, and
\* both left the new document and a success run of one document
C32_Witness ==
    /\ BothPathsDone
    /\ snapshot["w2"] # {}
    /\ Len(remote) = 2
    /\ log["w1"] = log["w2"]
    /\ CountOf("w2", "duplicate") = 1
    /\ CountOf("w2", "inserted") = 1
    /\ Cardinality(raw_documents) = 2
    /\ \A r \in RunsOf("w2") : r.status = "success" /\ r.docs_scraped = 1

\* the requests after which a reader is to have returned: the offsets below
\* _MAX_RESULTS for WorldBankScraper.run, and for _fetch_all_entries, which
\* has no limit of its own, as many pages as the model follows
RequestBound ==
    IF adapter["w1"] = "worldbank" THEN MAX_RESULTS \div PAGE_SIZE ELSE MaxPages

\* C33 as stated: whatever the remote source answers, a paginated reader
\* issues a bounded number of page requests and then returns: once it has
\* made that many requests it is out of its loop.
C33_PaginationTerminates ==
    PagedReader => (Len(requests) >= RequestBound => Fetched)

====
